---- MODULE Spec2Model ----
(***************************************************************************)
(* Encoder::Session of gta5-extended-video-export (encoder.cpp): the       *)
(* readiness rendezvous of the three setup calls, the frame submission     *)
(* paths and the two-flag finalize gate, with one process per caller       *)
(* thread and one action per step of each method.                          *)
(***************************************************************************)
EXTENDS Integers, Sequences, FiniteSets, TLC

\* ------------------------------------------------------------------ bounds
\* calls of createVideoContext (and of createAudioContext) made on the session
MaxCreateCalls == 2
\* frames submitted by each producer thread
MaxFrames == 2
\* calls of finishVideo (and of finishAudio) made on the session
MaxFinishCalls == 2
\* producer timestamp step between two frames, in 100 ns ticks (30 fps)
FrameTicks == 333333

\* ----------------------------------------------------------------- threads
NoThread == "none"
VideoSetupThreads == {"cv"}
AudioSetupThreads == {"ca"}
FormatSetupThreads == {"cf"}
VideoWriters == {"wv1", "wv2"}
AudioWriters == {"wa"}
VideoFinishers == {"fv"}
AudioFinishers == {"fa"}
Threads ==
    VideoSetupThreads \cup AudioSetupThreads \cup FormatSetupThreads
        \cup VideoWriters \cup AudioWriters \cup VideoFinishers \cup AudioFinishers

Mutexes == {"mxVideoContext", "mxAudioContext", "mxFormatContext", "mxWriteFrame", "mxFinish"}

\* ------------------------------------------------------------ input domains
PixelFormats == {"ARGB", "YUV420P", "NV12", "RGB24"}
InputPixelFormats == {"ARGB", "RGB24"}
OutputPixelFormats == {"YUV420P", "NONE"}
\* pixel formats the FFV1 encoder can be opened with, among those above
EncoderPixelFormats == {"YUV420P"}
FrameSizes == {<<2, 2>>}
\* frame rates <<fps_num, fps_den>> a caller passes to createVideoContext
SessionFrameRates == {<<30, 1>>}
\* byte lengths a caller passes to writeVideoFrame: the RGB24 and the ARGB size of a 2x2 frame
Lengths == {12, 16}
\* audio parameters a caller passes to createAudioContext, byte lengths to writeAudioFrame
NumChannels == {0, 2}
SampleFormats == {"S16"}
BlockAligns == {1}
AudioLengths == {8}

VARIABLES
    pc,                     \* position of each thread inside the method it runs
    ret,                    \* HRESULTs of the calls each thread has returned from, in order
    calls,                  \* calls each thread has begun
    workload,               \* calls each thread makes in all
    mx,                     \* owner of each std::mutex
    crashed,                \* the process died of an invalid memory access
    isVideoContextCreated, isAudioContextCreated, isFormatContextCreated,
    isCapturing, isVideoFinished, isAudioFinished, isSessionFinished,
    inputPixelFormat, outputPixelFormat, width, height,
    videoCodec, videoCodecContext, videoFrame,
    audioCodec, audioCodecContext, audioFrame, audioBlockAlign,
    oformat, fmtContext, videoStream, audioStream, pb,
    loc,                    \* locals of the call each thread is in
    notified,               \* condition variables on which notify_all was called
    log,                    \* what the container received, in order
    teardownBy,             \* threads that entered the teardown block of endSession, in order
    teardownSteps,          \* library calls the teardown block has made, with their success
    finishOrder,            \* finish flags in the order they were first set
    formatSteps,            \* library calls createFormatContext has made, with their success
    encoded,                \* frames for which an encoder produced a packet
    rescale                 \* operands and results of the timestamp rescaling under test

flagVars == <<isVideoContextCreated, isAudioContextCreated, isFormatContextCreated,
              isCapturing, isVideoFinished, isAudioFinished, isSessionFinished>>
videoVars == <<inputPixelFormat, outputPixelFormat, width, height,
               videoCodec, videoCodecContext, videoFrame>>
audioVars == <<audioCodec, audioCodecContext, audioFrame, audioBlockAlign>>
fmtVars == <<oformat, fmtContext, videoStream, audioStream, pb>>
ghostVars == <<notified, log, teardownBy, teardownSteps, finishOrder, formatSteps,
               encoded>>
sessionVars == <<flagVars, videoVars, audioVars, fmtVars, log>>
allButCrashed == <<pc, ret, calls, mx, flagVars, videoVars, audioVars, fmtVars,
                   loc, ghostVars, rescale>>
vars == <<crashed, workload, allButCrashed>>

\* ------------------------------------------------------------------ helpers
NoFrame == <<>>
NoPacket == [stream_index |-> -1, frame |-> NoFrame, pts |-> 0]
NoLocals == [length |-> 0, frame |-> NoFrame, pDataTarget |-> "none", pkt |-> NoPacket]
NullVideoCodecContext == [state |-> "null", time_base |-> <<0, 1>>, pix_fmt |-> "NONE"]
NullVideoFrame == [state |-> "null", data |-> NoFrame, pts |-> 0]
NullAudioCodecContext == [state |-> "null", channels |-> 0, sample_fmt |-> "NONE"]
NullAudioFrame == [state |-> "null", data |-> NoFrame, nb_samples |-> 0]
NullStream == [state |-> "null", index |-> -1, time_base |-> <<0, 1>>]
Event(e, i, f) == [ev |-> e, stream_index |-> i, frame |-> f]

\* what a library call or a member access does with the pointers it is given: through
\* a NULL pointer the process dies; through a dangling one (freed or closed memory) it
\* dies or the access goes unnoticed
Outcomes(null, dangling) ==
    IF null THEN {"crash"} ELSE IF dangling THEN {"crash", "proceed"} ELSE {"proceed"}

\* a codec context on which the encoder cannot run: never allocated, never opened, or
\* closed (avcodec_close clears the codec and the internal state)
Unusable(ctx) == ctx.state \in {"null", "allocated", "closed"}

Lock(t, m) == mx[m] = NoThread /\ mx' = [mx EXCEPT ![m] = t]
Unlock(t, m) == mx' = [mx EXCEPT ![m] = NoThread]
Goto(t, l) == pc' = [pc EXCEPT ![t] = l]
Return(t, hr) ==
    /\ pc' = [pc EXCEPT ![t] = "idle"]
    /\ ret' = [ret EXCEPT ![t] = Append(@, hr)]
Notify(cv) == notified' = notified \cup {cv}
BeginCall(t) ==
    /\ pc[t] = "idle"
    /\ calls[t] < workload[t]
    /\ calls' = [calls EXCEPT ![t] = @ + 1]

\* ------------------------------------------------------- library functions
Abs(x) == IF x < 0 THEN -x ELSE x

RECURSIVE Gcd(_, _)
Gcd(a, b) == IF b = 0 THEN a ELSE Gcd(b, a % b)

\* line 8
MF_TIME_BASE == <<1, 10000000>>

\* stands for the library's INT64_MIN, the result of av_rescale_rnd for an invalid b or c
INT64_MIN == 0 - 2147483647

\* mutant of av_rescale_rnd: the quotient is truncated (no half is added)
RECURSIVE av_rescale_rnd_zero(_, _, _)
av_rescale_rnd_zero(a, b, c) ==
    IF a < 0 THEN -av_rescale_rnd_zero(-a, b, c)
    ELSE IF c <= 0 \/ b < 0 THEN INT64_MIN
    ELSE (a * b) \div c

\* av_rescale_rnd(a, b, c, AV_ROUND_NEAR_INF): a * b / c rounded to the nearest integer,
\* halves away from zero (r = c / 2 is added before the truncating division; a negative
\* a is rescaled as -rescale(-a))
RECURSIVE av_rescale_rnd(_, _, _)
av_rescale_rnd(a, b, c) ==
    IF a < 0 THEN -av_rescale_rnd(-a, b, c)
    ELSE IF c <= 0 \/ b < 0 THEN INT64_MIN
    ELSE (a * b + (c \div 2)) \div c

\* av_rescale_q(a, bq, cq), line 185: b = bq.num * cq.den, c = cq.num * bq.den and
\* av_rescale_rnd(a, b, c, AV_ROUND_NEAR_INF).  The library forms b and c in 64 bits;
\* here their common factors are cancelled first, which keeps the products inside the
\* checker's integers and leaves the result unchanged: a * b / c is the same rational,
\* and adding c / 2 before the division rounds it to the nearest integer with halves
\* up whatever the denominator (an exact half occurs only for an even one).
av_rescale_q(a, bq, cq) ==
    LET g == Gcd(cq[2], bq[2])
        h == Gcd(bq[1], cq[1])
        b == (bq[1] \div h) * (cq[2] \div g)
        c == (cq[1] \div h) * (bq[2] \div g)
    IN av_rescale_rnd(a, b, c)

\* av_image_get_buffer_size(fmt, w, h, 1), line 160: the bytes of all planes, or
\* AVERROR(EINVAL) = -22 for an unknown format or an invalid size
av_image_get_buffer_size(fmt, w, h) ==
    IF w <= 0 \/ h <= 0 \/ fmt \notin PixelFormats THEN -22
    ELSE IF fmt = "ARGB" THEN w * h * 4
    ELSE IF fmt = "RGB24" THEN w * h * 3
    ELSE w * h + 2 * (((w + 1) \div 2) * ((h + 1) \div 2))

\* av_image_fill_arrays(..., fmt, w, h, 1), line 184: fails on the same arguments
av_image_fill_arrays(fmt, w, h) == av_image_get_buffer_size(fmt, w, h)

\* av_get_bytes_per_sample
av_get_bytes_per_sample(fmt) ==
    IF fmt = "U8" THEN 1 ELSE IF fmt = "S16" THEN 2 ELSE IF fmt = "S32" THEN 4 ELSE 0

\* av_samples_get_buffer_size(NULL, channels, 1, fmt, align), line 218: the bytes of one
\* sample of every channel, rounded up to align (align 0 means the default), or
\* AVERROR(EINVAL) = -22 for an unknown format or no channel
av_samples_get_buffer_size(channels, fmt, align) ==
    LET size == av_get_bytes_per_sample(fmt)
        al == IF align = 0 THEN 1 ELSE align
    IN IF size = 0 \/ channels <= 0 THEN -22
       ELSE ((channels * size + al - 1) \div al) * al

\* C++ integer division truncates toward zero
Div(a, b) == IF (a < 0) = (b < 0) THEN Abs(a) \div Abs(b) ELSE -(Abs(a) \div Abs(b))

\* producer timestamp of a thread's n-th frame
SampleTime(n) == (n - 1) * FrameTicks

\* ------------------------------------------------------ createVideoContext
\* lines 18-23: take mxVideoContext for the whole call; store both pixel formats
CreateVideoEnter(t) ==
    /\ t \in VideoSetupThreads
    /\ BeginCall(t)
    /\ Lock(t, "mxVideoContext")
    /\ \E inFmt \in InputPixelFormats, outFmt \in OutputPixelFormats :
          /\ inputPixelFormat' = inFmt
          /\ outputPixelFormat' = outFmt
    /\ Goto(t, "cv_find")
    /\ UNCHANGED <<ret, crashed, flagVars, width, height, videoCodec, videoCodecContext,
                   videoFrame, audioVars, fmtVars, loc, ghostVars, rescale>>

\* lines 25-30: avcodec_find_encoder; RET_IF_NULL; store the dimensions
CreateVideoFindEncoder(t) ==
    /\ pc[t] = "cv_find"
    /\ \E found \in BOOLEAN :
          IF found
          THEN /\ videoCodec' = "FFV1"
               /\ \E size \in FrameSizes : width' = size[1] /\ height' = size[2]
               /\ Goto(t, "cv_alloc")
               /\ UNCHANGED <<ret, mx>>
          ELSE /\ videoCodec' = "null"
               /\ Unlock(t, "mxVideoContext")
               /\ Return(t, "E_FAIL")
               /\ UNCHANGED <<width, height>>
    /\ UNCHANGED <<calls, crashed, flagVars, inputPixelFormat, outputPixelFormat,
                   videoCodecContext, videoFrame, audioVars, fmtVars, loc, ghostVars,
                   rescale>>

\* lines 31-44: avcodec_alloc_context3; RET_IF_NULL; configure the context
\* (pix_fmt = outputPixelFormat, time_base = fps_den / fps_num)
CreateVideoAllocContext(t) ==
    /\ pc[t] = "cv_alloc"
    /\ \E ok \in BOOLEAN :
          IF ok
          THEN /\ \E fps \in SessionFrameRates :
                     videoCodecContext' =
                         [state |-> "allocated", time_base |-> <<fps[2], fps[1]>>,
                          pix_fmt |-> outputPixelFormat]
               /\ Goto(t, "cv_frame")
               /\ UNCHANGED <<ret, mx>>
          ELSE /\ videoCodecContext' = NullVideoCodecContext
               /\ Unlock(t, "mxVideoContext")
               /\ Return(t, "E_FAIL")
    /\ UNCHANGED <<calls, crashed, flagVars, inputPixelFormat, outputPixelFormat, width,
                   height, videoCodec, videoFrame, audioVars, fmtVars, loc, ghostVars,
                   rescale>>

\* lines 46-54: av_frame_alloc; RET_IF_NULL; set the readiness flag, notify_all, return
CreateVideoAllocFrame(t) ==
    /\ pc[t] = "cv_frame"
    /\ \E ok \in BOOLEAN :
          IF ok
          THEN /\ videoFrame' = [NullVideoFrame EXCEPT !.state = "allocated"]
               /\ isVideoContextCreated' = TRUE
               /\ Notify("cvVideoContext")
               /\ Return(t, "S_OK")
          ELSE /\ videoFrame' = NullVideoFrame
               /\ Return(t, "E_FAIL")
               /\ UNCHANGED <<isVideoContextCreated, notified>>
    /\ Unlock(t, "mxVideoContext")
    /\ UNCHANGED <<calls, crashed, isAudioContextCreated, isFormatContextCreated,
                   isCapturing, isVideoFinished, isAudioFinished, isSessionFinished,
                   inputPixelFormat, outputPixelFormat, width, height, videoCodec,
                   videoCodecContext, audioVars, fmtVars, loc, log, teardownBy, teardownSteps,
                   finishOrder, formatSteps, encoded, rescale>>

\* ------------------------------------------------------ createAudioContext
\* lines 59-61: take mxAudioContext for the whole call; avcodec_find_encoder, whose
\* result is not checked
CreateAudioEnter(t) ==
    /\ t \in AudioSetupThreads
    /\ BeginCall(t)
    /\ Lock(t, "mxAudioContext")
    /\ \E found \in BOOLEAN : audioCodec' = IF found THEN "PCM_S16LE" ELSE "null"
    /\ Goto(t, "ca_alloc")
    /\ UNCHANGED <<ret, crashed, flagVars, videoVars, audioCodecContext, audioFrame,
                   audioBlockAlign, fmtVars, loc, ghostVars, rescale>>

\* lines 62-70: avcodec_alloc_context3 (which also allocates for a NULL codec); its
\* result is not checked and the configuration is written through it
CreateAudioAllocContext(t) ==
    /\ pc[t] = "ca_alloc"
    /\ \E ok \in BOOLEAN :
       \E outcome \in Outcomes(~ok, FALSE) :
          /\ crashed' = (outcome = "crash")
          /\ IF outcome = "crash"
             THEN UNCHANGED allButCrashed
             ELSE /\ \E ch \in NumChannels, fmt \in SampleFormats, align \in BlockAligns :
                        /\ audioCodecContext' =
                              [state |-> "allocated", channels |-> ch, sample_fmt |-> fmt]
                        /\ audioBlockAlign' = align
                  /\ Goto(t, "ca_frame")
                  /\ UNCHANGED <<ret, calls, mx, flagVars, videoVars, audioCodec,
                                 audioFrame, fmtVars, loc, ghostVars, rescale>>

\* lines 72-80: av_frame_alloc; RET_IF_NULL; set the readiness flag, notify_all, return
CreateAudioAllocFrame(t) ==
    /\ pc[t] = "ca_frame"
    /\ \E ok \in BOOLEAN :
          IF ok
          THEN /\ audioFrame' = [NullAudioFrame EXCEPT !.state = "allocated"]
               /\ isAudioContextCreated' = TRUE
               /\ Notify("cvAudioContext")
               /\ Return(t, "S_OK")
          ELSE /\ audioFrame' = NullAudioFrame
               /\ Return(t, "E_FAIL")
               /\ UNCHANGED <<isAudioContextCreated, notified>>
    /\ Unlock(t, "mxAudioContext")
    /\ UNCHANGED <<calls, crashed, isVideoContextCreated, isFormatContextCreated,
                   isCapturing, isVideoFinished, isAudioFinished, isSessionFinished,
                   videoVars, audioCodec, audioCodecContext, audioBlockAlign, fmtVars,
                   loc, log, teardownBy, teardownSteps, finishOrder, formatSteps,
                   encoded, rescale>>

\* ----------------------------------------------------- createFormatContext
\* a pointer that may not be dereferenced: NULL, or dangling after av_free
Invalid(ctx) == ctx.state \in {"null", "freed"}

\* line 88: the call begins by taking mxVideoContext
CreateFormatEnter(t) ==
    /\ t \in FormatSetupThreads
    /\ BeginCall(t)
    /\ Lock(t, "mxVideoContext")
    /\ Goto(t, "cf_checkV")
    /\ UNCHANGED <<ret, crashed, flagVars, videoVars, audioVars, fmtVars, loc, ghostVars,
                   rescale>>

\* lines 89-92: leave the loop and the lock once isVideoContextCreated is read true,
\* otherwise wait_for releases the lock for up to 100 ms
CreateFormatCheckVideo(t) ==
    /\ pc[t] = "cf_checkV"
    /\ Unlock(t, "mxVideoContext")
    /\ Goto(t, IF isVideoContextCreated THEN "cf_lockA" ELSE "cf_waitV")
    /\ UNCHANGED <<ret, calls, crashed, flagVars, videoVars, audioVars, fmtVars, loc,
                   ghostVars, rescale>>

\* mutant of CreateFormatWakeVideo: the call gives up with E_FAIL when wait_for returns
CreateFormatWakeVideoGiveUp(t) ==
    /\ pc[t] = "cf_waitV"
    /\ mx["mxVideoContext"] = NoThread
    /\ Return(t, "E_FAIL")
    /\ UNCHANGED <<calls, mx, crashed, flagVars, videoVars, audioVars, fmtVars, loc,
                   ghostVars, rescale>>

\* line 90: wait_for returns (notification or timeout) holding the lock again
CreateFormatWakeVideo(t) ==
    /\ pc[t] = "cf_waitV"
    /\ Lock(t, "mxVideoContext")
    /\ Goto(t, "cf_checkV")
    /\ UNCHANGED <<ret, calls, crashed, flagVars, videoVars, audioVars, fmtVars, loc,
                   ghostVars, rescale>>

\* line 97
CreateFormatLockAudio(t) ==
    /\ pc[t] = "cf_lockA"
    /\ Lock(t, "mxAudioContext")
    /\ Goto(t, "cf_checkA")
    /\ UNCHANGED <<ret, calls, crashed, flagVars, videoVars, audioVars, fmtVars, loc,
                   ghostVars, rescale>>

\* mutant of CreateFormatCheckAudio: the second wait tests the video flag again
CreateFormatCheckAudioWrongFlag(t) ==
    /\ pc[t] = "cf_checkA"
    /\ Unlock(t, "mxAudioContext")
    /\ Goto(t, IF isVideoContextCreated THEN "cf_guess" ELSE "cf_waitA")
    /\ UNCHANGED <<ret, calls, crashed, flagVars, videoVars, audioVars, fmtVars, loc,
                   ghostVars, rescale>>

\* lines 98-101: leave the loop and the lock once isAudioContextCreated is read true
CreateFormatCheckAudio(t) ==
    /\ pc[t] = "cf_checkA"
    /\ Unlock(t, "mxAudioContext")
    /\ Goto(t, IF isAudioContextCreated THEN "cf_guess" ELSE "cf_waitA")
    /\ UNCHANGED <<ret, calls, crashed, flagVars, videoVars, audioVars, fmtVars, loc,
                   ghostVars, rescale>>

\* line 99
CreateFormatWakeAudio(t) ==
    /\ pc[t] = "cf_waitA"
    /\ Lock(t, "mxAudioContext")
    /\ Goto(t, "cf_checkA")
    /\ UNCHANGED <<ret, calls, crashed, flagVars, videoVars, audioVars, fmtVars, loc,
                   ghostVars, rescale>>

\* records a library call of createFormatContext and whether it succeeded
FormatStep(name, ok) == formatSteps' = Append(formatSteps, [step |-> name, ok |-> ok])

\* lines 105-111: av_guess_format; RET_IF_NULL
CreateFormatGuessFormat(t) ==
    /\ pc[t] = "cf_guess"
    /\ \E ok \in BOOLEAN :
          /\ FormatStep("av_guess_format", ok)
          /\ IF ok
             THEN oformat' = "matroska" /\ Goto(t, "cf_alloc") /\ UNCHANGED ret
             ELSE oformat' = "null" /\ Return(t, "E_FAIL")
    /\ UNCHANGED <<calls, mx, crashed, flagVars, videoVars, audioVars, fmtContext,
                   videoStream, audioStream, pb, loc, notified, log, teardownBy, teardownSteps,
                   finishOrder, encoded, rescale>>

\* lines 113-118: avformat_alloc_output_context2; RET_IF_FAILED_AV, RET_IF_NULL
CreateFormatAllocOutput(t) ==
    /\ pc[t] = "cf_alloc"
    /\ \E ok \in BOOLEAN :
          /\ FormatStep("avformat_alloc_output_context2", ok)
          /\ IF ok
             THEN fmtContext' = "allocated" /\ Goto(t, "cf_vstream") /\ UNCHANGED ret
             ELSE fmtContext' = "null" /\ Return(t, "E_FAIL")
    /\ UNCHANGED <<calls, mx, crashed, flagVars, videoVars, audioVars, oformat,
                   videoStream, audioStream, pb, loc, notified, log, teardownBy, teardownSteps,
                   finishOrder, encoded, rescale>>

\* lines 120-124: avformat_new_stream; RET_IF_NULL; the stream takes the time base of
\* videoCodecContext, read through the pointer, and index 0
CreateFormatNewVideoStream(t) ==
    /\ pc[t] = "cf_vstream"
    /\ \E ok \in BOOLEAN :
       \E outcome \in Outcomes(ok /\ videoCodecContext.state = "null",
                               ok /\ videoCodecContext.state = "freed") :
          /\ crashed' = (outcome = "crash")
          /\ IF outcome = "crash"
             THEN UNCHANGED allButCrashed
             ELSE /\ FormatStep("avformat_new_stream video", ok)
                  /\ IF ok
                     THEN /\ videoStream' =
                                [state |-> "registered", index |-> 0,
                                 time_base |-> videoCodecContext.time_base]
                          /\ Goto(t, "cf_astream")
                          /\ UNCHANGED ret
                     ELSE /\ videoStream' = NullStream
                          /\ Return(t, "E_FAIL")
                  /\ UNCHANGED <<calls, mx, flagVars, videoVars, audioVars, oformat,
                                 fmtContext, audioStream, pb, loc, notified, log,
                                 teardownBy, teardownSteps, finishOrder, encoded, rescale>>

\* lines 126-136: avformat_new_stream; RET_IF_NULL; the stream takes 1 / sample_rate,
\* read through audioCodecContext, and index 1; the global-header flag is or-ed into
\* both codec contexts (it has no further effect here)
CreateFormatNewAudioStream(t) ==
    /\ pc[t] = "cf_astream"
    /\ \E ok \in BOOLEAN :
       \E outcome \in Outcomes(ok /\ audioCodecContext.state = "null",
                               ok /\ audioCodecContext.state = "freed") :
          /\ crashed' = (outcome = "crash")
          /\ IF outcome = "crash"
             THEN UNCHANGED allButCrashed
             ELSE /\ FormatStep("avformat_new_stream audio", ok)
                  /\ IF ok
                     THEN /\ audioStream' =
                                [state |-> "registered", index |-> 1,
                                 time_base |-> <<1, 48000>>]
                          /\ Goto(t, "cf_vopen")
                          /\ UNCHANGED ret
                     ELSE /\ audioStream' = NullStream
                          /\ Return(t, "E_FAIL")
                  /\ UNCHANGED <<calls, mx, flagVars, videoVars, audioVars, oformat,
                                 fmtContext, videoStream, pb, loc, notified, log,
                                 teardownBy, teardownSteps, finishOrder, encoded, rescale>>

\* line 138: avcodec_open2(videoCodecContext, videoCodec); RET_IF_FAILED_AV.  It fails
\* for a NULL codec and for a pixel format the encoder does not take, and reads and
\* writes the context
CreateFormatOpenVideoCodec(t) ==
    /\ pc[t] = "cf_vopen"
    /\ \E ok \in (IF videoCodec = "null"
                       \/ videoCodecContext.pix_fmt \notin EncoderPixelFormats
                  THEN {FALSE} ELSE BOOLEAN),
          outcome \in Outcomes(videoCodecContext.state = "null",
                               videoCodecContext.state = "freed") :
          /\ crashed' = (outcome = "crash")
          /\ IF outcome = "crash"
             THEN UNCHANGED allButCrashed
             ELSE /\ FormatStep("avcodec_open2 video", ok)
                  /\ IF ok
                     THEN /\ videoCodecContext' = [videoCodecContext EXCEPT !.state =
                                   IF Invalid(videoCodecContext) THEN @ ELSE "open"]
                          /\ Goto(t, "cf_aopen")
                          /\ UNCHANGED ret
                     ELSE /\ UNCHANGED videoCodecContext
                          /\ Return(t, "E_FAIL")
                  /\ UNCHANGED <<calls, mx, flagVars, inputPixelFormat, outputPixelFormat,
                                 width, height, videoCodec, videoFrame, audioVars, fmtVars,
                                 loc, notified, log, teardownBy, teardownSteps, finishOrder, encoded,
                                 rescale>>

\* line 139: avcodec_open2(audioCodecContext, audioCodec); RET_IF_FAILED_AV
CreateFormatOpenAudioCodec(t) ==
    /\ pc[t] = "cf_aopen"
    /\ \E ok \in (IF audioCodec = "null" THEN {FALSE} ELSE BOOLEAN),
          outcome \in Outcomes(audioCodecContext.state = "null",
                               audioCodecContext.state = "freed") :
          /\ crashed' = (outcome = "crash")
          /\ IF outcome = "crash"
             THEN UNCHANGED allButCrashed
             ELSE /\ FormatStep("avcodec_open2 audio", ok)
                  /\ IF ok
                     THEN /\ audioCodecContext' = [audioCodecContext EXCEPT !.state =
                                   IF Invalid(audioCodecContext) THEN @ ELSE "open"]
                          /\ Goto(t, "cf_file")
                          /\ UNCHANGED ret
                     ELSE /\ UNCHANGED audioCodecContext
                          /\ Return(t, "E_FAIL")
                  /\ UNCHANGED <<calls, mx, flagVars, videoVars, audioCodec, audioFrame,
                                 audioBlockAlign, fmtVars, loc, notified, log, teardownBy, teardownSteps,
                                 finishOrder, encoded, rescale>>

\* mutant of CreateFormatOpenFile: the result of avio_open is not checked
CreateFormatOpenFileUnchecked(t) ==
    /\ pc[t] = "cf_file"
    /\ \E ok \in BOOLEAN :
          /\ FormatStep("avio_open", ok)
          /\ pb' = IF ok THEN "open" ELSE "null"
          /\ Goto(t, "cf_header")
    /\ UNCHANGED <<ret, calls, mx, crashed, flagVars, videoVars, audioVars, oformat,
                   fmtContext, videoStream, audioStream, loc, notified, log, teardownBy, teardownSteps,
                   finishOrder, encoded, rescale>>

\* lines 140-141: avio_open; RET_IF_FAILED_AV, RET_IF_NULL
CreateFormatOpenFile(t) ==
    /\ pc[t] = "cf_file"
    /\ \E ok \in BOOLEAN :
          /\ FormatStep("avio_open", ok)
          /\ IF ok
             THEN pb' = "open" /\ Goto(t, "cf_header") /\ UNCHANGED ret
             ELSE pb' = "null" /\ Return(t, "E_FAIL")
    /\ UNCHANGED <<calls, mx, crashed, flagVars, videoVars, audioVars, oformat,
                   fmtContext, videoStream, audioStream, loc, notified, log, teardownBy, teardownSteps,
                   finishOrder, encoded, rescale>>

\* line 142: avformat_write_header; RET_IF_FAILED_AV
CreateFormatWriteHeader(t) ==
    /\ pc[t] = "cf_header"
    /\ \E ok \in BOOLEAN :
          /\ FormatStep("avformat_write_header", ok)
          /\ IF ok
             THEN /\ log' = Append(log, Event("header", -1, NoFrame))
                  /\ Goto(t, "cf_ready")
                  /\ UNCHANGED ret
             ELSE /\ Return(t, "E_FAIL")
                  /\ UNCHANGED log
    /\ UNCHANGED <<calls, mx, crashed, flagVars, videoVars, audioVars, fmtVars, loc,
                   notified, teardownBy, teardownSteps, finishOrder, encoded, rescale>>

\* lines 143-147: set isCapturing and isFormatContextCreated, notify_all, return S_OK
CreateFormatReady(t) ==
    /\ pc[t] = "cf_ready"
    /\ isCapturing' = TRUE
    /\ isFormatContextCreated' = TRUE
    /\ Notify("cvFormatContext")
    /\ Return(t, "S_OK")
    /\ UNCHANGED <<calls, mx, crashed, isVideoContextCreated, isAudioContextCreated,
                   isVideoFinished, isAudioFinished, isSessionFinished, videoVars,
                   audioVars, fmtVars, loc, log, teardownBy, teardownSteps, finishOrder, formatSteps,
                   encoded, rescale>>

\* --------------------------------------------------------- writeVideoFrame
\* line 153: the call begins by taking mxFormatContext; length is the caller's
WriteVideoEnter(t) ==
    /\ t \in VideoWriters
    /\ BeginCall(t)
    /\ Lock(t, "mxFormatContext")
    /\ \E length \in Lengths :
          loc' = [loc EXCEPT ![t] = [NoLocals EXCEPT !.length = length,
                                                     !.frame = <<t, calls[t] + 1>>]]
    /\ Goto(t, "wv_check")
    /\ UNCHANGED <<ret, crashed, flagVars, videoVars, audioVars, fmtVars, ghostVars,
                   rescale>>

\* lines 154-157: leave the loop and the lock once isFormatContextCreated is read true,
\* otherwise wait_for releases the lock for up to 100 ms
WriteVideoCheckReady(t) ==
    /\ pc[t] = "wv_check"
    /\ Unlock(t, "mxFormatContext")
    /\ Goto(t, IF isFormatContextCreated THEN "wv_size" ELSE "wv_wait")
    /\ UNCHANGED <<ret, calls, crashed, flagVars, videoVars, audioVars, fmtVars, loc,
                   ghostVars, rescale>>

\* mutant of WriteVideoWake: an if in place of the while, so the flag is not read
\* again after wait_for returns
WriteVideoWakeNoRecheck(t) ==
    /\ pc[t] = "wv_wait"
    /\ mx["mxFormatContext"] = NoThread
    /\ Goto(t, "wv_size")
    /\ UNCHANGED <<ret, calls, mx, crashed, flagVars, videoVars, audioVars, fmtVars, loc,
                   ghostVars, rescale>>

\* line 155: wait_for returns (notification or timeout) holding the lock again
WriteVideoWake(t) ==
    /\ pc[t] = "wv_wait"
    /\ Lock(t, "mxFormatContext")
    /\ Goto(t, "wv_check")
    /\ UNCHANGED <<ret, calls, crashed, flagVars, videoVars, audioVars, fmtVars, loc,
                   ghostVars, rescale>>

\* mutant of WriteVideoCheckSize: the length is not compared with the expected size
WriteVideoCheckSizeNoCheck(t) ==
    /\ pc[t] = "wv_size"
    /\ IF inputPixelFormat \in {"ARGB", "YUV420P", "NV12"}
       THEN /\ loc' = [loc EXCEPT ![t].pDataTarget = "allocated"]
            /\ Goto(t, "wv_fill")
            /\ UNCHANGED ret
       ELSE /\ Return(t, "E_FAIL")
            /\ loc' = [loc EXCEPT ![t] = NoLocals]
    /\ UNCHANGED <<calls, mx, crashed, flagVars, videoVars, audioVars, fmtVars, ghostVars,
                   rescale>>

\* lines 160-182: reject a length other than av_image_get_buffer_size; allocate
\* pDataTarget; copy or convert by input format, an unrecognized one deletes the
\* buffer and fails
WriteVideoCheckSize(t) ==
    /\ pc[t] = "wv_size"
    /\ LET bufferLength == av_image_get_buffer_size(inputPixelFormat, width, height)
       IN IF loc[t].length # bufferLength
          THEN /\ Return(t, "E_FAIL")
               /\ loc' = [loc EXCEPT ![t] = NoLocals]
          ELSE IF inputPixelFormat \in {"ARGB", "YUV420P", "NV12"}
          THEN /\ loc' = [loc EXCEPT ![t].pDataTarget = "allocated"]
               /\ Goto(t, "wv_fill")
               /\ UNCHANGED ret
          ELSE /\ Return(t, "E_FAIL")
               /\ loc' = [loc EXCEPT ![t] = NoLocals]
    /\ UNCHANGED <<calls, mx, crashed, flagVars, videoVars, audioVars, fmtVars, ghostVars,
                   rescale>>

\* lines 183-185: av_image_fill_arrays points videoFrame at pDataTarget (RET_IF_FAILED
\* returns with the buffer still allocated); pts = av_rescale_q(sampleTime, ...)
WriteVideoFillFrame(t) ==
    /\ pc[t] = "wv_fill"
    /\ \E outcome \in Outcomes(videoFrame.state = "null" \/ videoStream.state = "null",
                               FALSE) :
          /\ crashed' = (outcome = "crash")
          /\ IF outcome = "crash"
             THEN UNCHANGED allButCrashed
             ELSE /\ IF av_image_fill_arrays(outputPixelFormat, width, height) < 0
                     THEN /\ Return(t, "E_FAIL")
                          /\ loc' = [loc EXCEPT ![t] =
                                       [NoLocals EXCEPT !.pDataTarget = "allocated"]]
                          /\ UNCHANGED videoFrame
                     ELSE /\ videoFrame' =
                                [videoFrame EXCEPT
                                   !.data = loc[t].frame,
                                   !.pts = av_rescale_q(SampleTime(loc[t].frame[2]),
                                                        MF_TIME_BASE,
                                                        videoStream.time_base)]
                          /\ Goto(t, "wv_encode")
                          /\ UNCHANGED <<ret, loc>>
                  /\ UNCHANGED <<calls, mx, flagVars, inputPixelFormat, outputPixelFormat,
                                 width, height, videoCodec, videoCodecContext, audioVars,
                                 fmtVars, ghostVars, rescale>>

\* lines 187-195 and, when no packet came out, 201-206: avcodec_encode_video2 on
\* videoCodecContext and videoFrame, outside any lock
WriteVideoEncode(t) ==
    /\ pc[t] = "wv_encode"
    /\ \E got_packet \in BOOLEAN,
          outcome \in Outcomes(Unusable(videoCodecContext),
                               videoCodecContext.state = "freed") :
          /\ crashed' = (outcome = "crash")
          /\ IF outcome = "crash"
             THEN UNCHANGED allButCrashed
             ELSE /\ IF got_packet
                     THEN /\ loc' = [loc EXCEPT ![t].pkt =
                                       [stream_index |-> -1, frame |-> videoFrame.data,
                                        pts |-> videoFrame.pts]]
                          /\ encoded' = encoded \cup {videoFrame.data}
                          /\ Goto(t, "wv_lock")
                          /\ UNCHANGED ret
                     ELSE /\ loc' = [loc EXCEPT ![t] = NoLocals]
                          /\ Return(t, "S_OK")
                          /\ UNCHANGED encoded
                  /\ UNCHANGED <<calls, mx, flagVars, videoVars, audioVars, fmtVars,
                                 notified, log, teardownBy, teardownSteps, finishOrder, formatSteps,
                                 rescale>>

\* lines 196-197: take mxWriteFrame, tag the packet with the video stream's index
WriteVideoLockWrite(t) ==
    /\ pc[t] = "wv_lock"
    /\ Lock(t, "mxWriteFrame")
    /\ loc' = [loc EXCEPT ![t].pkt.stream_index = videoStream.index]
    /\ Goto(t, "wv_write")
    /\ UNCHANGED <<ret, calls, crashed, flagVars, videoVars, audioVars, fmtVars,
                   ghostVars, rescale>>

\* mutant of WriteVideoWritePacket: the packet is put in front of what the container
\* already holds
WriteVideoWritePacketFront(t) ==
    /\ pc[t] = "wv_write"
    /\ \E outcome \in Outcomes(fmtContext = "null" \/ pb = "null", pb = "closed") :
          /\ crashed' = (outcome = "crash")
          /\ IF outcome = "crash"
             THEN UNCHANGED allButCrashed
             ELSE /\ log' = <<Event("packet", loc[t].pkt.stream_index,
                                     loc[t].pkt.frame)>> \o log
                  /\ Unlock(t, "mxWriteFrame")
                  /\ loc' = [loc EXCEPT ![t] = NoLocals]
                  /\ Return(t, "S_OK")
                  /\ UNCHANGED <<calls, flagVars, videoVars, audioVars, fmtVars, notified,
                                 teardownBy, teardownSteps, finishOrder, formatSteps, encoded, rescale>>

\* lines 198-206: av_interleaved_write_frame, release mxWriteFrame, delete the buffer,
\* return S_OK
WriteVideoWritePacket(t) ==
    /\ pc[t] = "wv_write"
    /\ \E outcome \in Outcomes(fmtContext = "null" \/ pb = "null", pb = "closed") :
          /\ crashed' = (outcome = "crash")
          /\ IF outcome = "crash"
             THEN UNCHANGED allButCrashed
             ELSE /\ log' = Append(log, Event("packet", loc[t].pkt.stream_index,
                                              loc[t].pkt.frame))
                  /\ Unlock(t, "mxWriteFrame")
                  /\ loc' = [loc EXCEPT ![t] = NoLocals]
                  /\ Return(t, "S_OK")
                  /\ UNCHANGED <<calls, flagVars, videoVars, audioVars, fmtVars, notified,
                                 teardownBy, teardownSteps, finishOrder, formatSteps, encoded, rescale>>

\* --------------------------------------------------------- writeAudioFrame
\* line 213
WriteAudioEnter(t) ==
    /\ t \in AudioWriters
    /\ BeginCall(t)
    /\ Lock(t, "mxFormatContext")
    /\ \E length \in AudioLengths :
          loc' = [loc EXCEPT ![t] = [NoLocals EXCEPT !.length = length,
                                                     !.frame = <<t, calls[t] + 1>>]]
    /\ Goto(t, "wa_check")
    /\ UNCHANGED <<ret, crashed, flagVars, videoVars, audioVars, fmtVars, ghostVars,
                   rescale>>

\* lines 214-217
WriteAudioCheckReady(t) ==
    /\ pc[t] = "wa_check"
    /\ Unlock(t, "mxFormatContext")
    /\ Goto(t, IF isFormatContextCreated THEN "wa_fill" ELSE "wa_wait")
    /\ UNCHANGED <<ret, calls, crashed, flagVars, videoVars, audioVars, fmtVars, loc,
                   ghostVars, rescale>>

\* mutant of WriteAudioWake: a wait without the 100 ms timeout, which does not return
\* once notify_all has been issued
WriteAudioWakeMissed(t) ==
    /\ pc[t] = "wa_wait"
    /\ "cvFormatContext" \notin notified
    /\ Lock(t, "mxFormatContext")
    /\ Goto(t, "wa_check")
    /\ UNCHANGED <<ret, calls, crashed, flagVars, videoVars, audioVars, fmtVars, loc,
                   ghostVars, rescale>>

\* line 215
WriteAudioWake(t) ==
    /\ pc[t] = "wa_wait"
    /\ Lock(t, "mxFormatContext")
    /\ Goto(t, "wa_check")
    /\ UNCHANGED <<ret, calls, crashed, flagVars, videoVars, audioVars, fmtVars, loc,
                   ghostVars, rescale>>

\* lines 218-224: numSamples = length / av_samples_get_buffer_size(...), unguarded;
\* avcodec_fill_audio_frame points audioFrame at pData; pts stays AV_NOPTS_VALUE
WriteAudioFillFrame(t) ==
    /\ pc[t] = "wa_fill"
    /\ LET block == av_samples_get_buffer_size(audioCodecContext.channels,
                                                audioCodecContext.sample_fmt,
                                                audioBlockAlign)
       IN \E outcome \in Outcomes(audioCodecContext.state = "null" \/ block = 0
                                     \/ audioFrame.state = "null",
                                  audioCodecContext.state = "freed") :
             /\ crashed' = (outcome = "crash")
             /\ IF outcome = "crash"
                THEN UNCHANGED allButCrashed
                ELSE /\ audioFrame' =
                           [audioFrame EXCEPT
                              !.nb_samples = IF block = 0 THEN 0
                                             ELSE Div(loc[t].length, block),
                              !.data = loc[t].frame]
                     /\ Goto(t, "wa_encode")
                     /\ UNCHANGED <<ret, calls, mx, flagVars, videoVars, audioCodec,
                                    audioCodecContext, audioBlockAlign, fmtVars, loc,
                                    ghostVars, rescale>>

\* lines 226-234 and, when no packet came out, 240-243: avcodec_encode_audio2
WriteAudioEncode(t) ==
    /\ pc[t] = "wa_encode"
    /\ \E got_packet \in BOOLEAN,
          outcome \in Outcomes(Unusable(audioCodecContext),
                               audioCodecContext.state = "freed") :
          /\ crashed' = (outcome = "crash")
          /\ IF outcome = "crash"
             THEN UNCHANGED allButCrashed
             ELSE /\ IF got_packet
                     THEN /\ loc' = [loc EXCEPT ![t].pkt =
                                       [stream_index |-> -1, frame |-> audioFrame.data,
                                        pts |-> 0]]
                          /\ encoded' = encoded \cup {audioFrame.data}
                          /\ Goto(t, "wa_lock")
                          /\ UNCHANGED ret
                     ELSE /\ loc' = [loc EXCEPT ![t] = NoLocals]
                          /\ Return(t, "S_OK")
                          /\ UNCHANGED encoded
                  /\ UNCHANGED <<calls, mx, flagVars, videoVars, audioVars, fmtVars,
                                 notified, log, teardownBy, teardownSteps, finishOrder, formatSteps,
                                 rescale>>

\* mutant of WriteAudioLockWrite: the audio packet is tagged with the video stream's
\* index
WriteAudioLockWriteVideoIndex(t) ==
    /\ pc[t] = "wa_lock"
    /\ Lock(t, "mxWriteFrame")
    /\ loc' = [loc EXCEPT ![t].pkt.stream_index = videoStream.index]
    /\ Goto(t, "wa_write")
    /\ UNCHANGED <<ret, calls, crashed, flagVars, videoVars, audioVars, fmtVars,
                   ghostVars, rescale>>

\* mutant of WriteAudioLockWrite: the audio path writes without taking mxWriteFrame
WriteAudioLockWriteNoLock(t) ==
    /\ pc[t] = "wa_lock"
    /\ loc' = [loc EXCEPT ![t].pkt.stream_index = audioStream.index]
    /\ Goto(t, "wa_write")
    /\ UNCHANGED <<ret, calls, mx, crashed, flagVars, videoVars, audioVars, fmtVars,
                   ghostVars, rescale>>

\* lines 235-236: take mxWriteFrame, tag the packet with the audio stream's index
WriteAudioLockWrite(t) ==
    /\ pc[t] = "wa_lock"
    /\ Lock(t, "mxWriteFrame")
    /\ loc' = [loc EXCEPT ![t].pkt.stream_index = audioStream.index]
    /\ Goto(t, "wa_write")
    /\ UNCHANGED <<ret, calls, crashed, flagVars, videoVars, audioVars, fmtVars,
                   ghostVars, rescale>>

\* lines 237-243: av_interleaved_write_frame, release mxWriteFrame, return S_OK
WriteAudioWritePacket(t) ==
    /\ pc[t] = "wa_write"
    /\ \E outcome \in Outcomes(fmtContext = "null" \/ pb = "null", pb = "closed") :
          /\ crashed' = (outcome = "crash")
          /\ IF outcome = "crash"
             THEN UNCHANGED allButCrashed
             ELSE /\ log' = Append(log, Event("packet", loc[t].pkt.stream_index,
                                              loc[t].pkt.frame))
                  /\ Unlock(t, "mxWriteFrame")
                  /\ loc' = [loc EXCEPT ![t] = NoLocals]
                  /\ Return(t, "S_OK")
                  /\ UNCHANGED <<calls, flagVars, videoVars, audioVars, fmtVars, notified,
                                 teardownBy, teardownSteps, finishOrder, formatSteps, encoded, rescale>>

\* ------------------------------------------- finishVideo, finishAudio, endSession
\* mutant of BothFinished: the gate opens when either stream has finished
EitherFinished(video, audio) == video \/ audio

HeaderWritten == \E i \in 1..Len(log) : log[i].ev = "header"

\* line 263: the gate of the teardown block
BothFinished(video, audio) == video /\ audio

FirstSet(order, flag) ==
    IF \E i \in 1..Len(order) : order[i] = flag THEN order ELSE Append(order, flag)

\* records a library call of the teardown block and whether it succeeded
TeardownStep(name, ok) ==
    teardownSteps' = Append(teardownSteps, [step |-> name, ok |-> ok])

\* lines 246-251 with lines 263-265 of endSession: under mxFinish set isVideoFinished;
\* with both flags set clear isCapturing and go on to the teardown, otherwise return
FinishVideo(t) ==
    /\ t \in VideoFinishers
    /\ BeginCall(t)
    /\ mx["mxFinish"] = NoThread
    /\ isVideoFinished' = TRUE
    /\ finishOrder' = FirstSet(finishOrder, "video")
    /\ IF BothFinished(TRUE, isAudioFinished)
       THEN /\ isCapturing' = FALSE
            /\ teardownBy' = Append(teardownBy, t)
            /\ mx' = [mx EXCEPT !["mxFinish"] = t]
            /\ Goto(t, "es_trailer")
            /\ UNCHANGED ret
       ELSE /\ Return(t, "S_OK")
            /\ UNCHANGED <<isCapturing, teardownBy, mx>>
    /\ UNCHANGED <<crashed, isVideoContextCreated, isAudioContextCreated,
                   isFormatContextCreated, isAudioFinished, isSessionFinished, videoVars,
                   audioVars, fmtVars, loc, notified, log, teardownSteps, formatSteps,
                   encoded, rescale>>

\* lines 254-259 with lines 263-265 of endSession
FinishAudio(t) ==
    /\ t \in AudioFinishers
    /\ BeginCall(t)
    /\ mx["mxFinish"] = NoThread
    /\ isAudioFinished' = TRUE
    /\ finishOrder' = FirstSet(finishOrder, "audio")
    /\ IF BothFinished(isVideoFinished, TRUE)
       THEN /\ isCapturing' = FALSE
            /\ teardownBy' = Append(teardownBy, t)
            /\ mx' = [mx EXCEPT !["mxFinish"] = t]
            /\ Goto(t, "es_trailer")
            /\ UNCHANGED ret
       ELSE /\ Return(t, "S_OK")
            /\ UNCHANGED <<isCapturing, teardownBy, mx>>
    /\ UNCHANGED <<crashed, isVideoContextCreated, isAudioContextCreated,
                   isFormatContextCreated, isVideoFinished, isSessionFinished, videoVars,
                   audioVars, fmtVars, loc, notified, log, teardownSteps, formatSteps,
                   encoded, rescale>>

\* mutant of EndSessionWriteTrailer: a failed trailer write ends the teardown with E_FAIL
EndSessionWriteTrailerAbort(t) ==
    /\ pc[t] = "es_trailer"
    /\ \E ok \in BOOLEAN,
          outcome \in Outcomes(fmtContext = "null" \/ pb = "null",
                               pb = "closed" \/ ~HeaderWritten) :
          /\ crashed' = (outcome = "crash")
          /\ IF outcome = "crash"
             THEN UNCHANGED allButCrashed
             ELSE /\ TeardownStep("av_write_trailer", ok)
                  /\ IF ok
                     THEN /\ log' = Append(log, Event("trailer", -1, NoFrame))
                          /\ Goto(t, "es_close")
                          /\ UNCHANGED <<ret, mx>>
                     ELSE /\ Unlock(t, "mxFinish")
                          /\ Return(t, "E_FAIL")
                          /\ UNCHANGED log
                  /\ UNCHANGED <<calls, flagVars, videoVars, audioVars, fmtVars,
                                 loc, notified, teardownBy, finishOrder, formatSteps,
                                 encoded, rescale>>

\* line 268: av_write_trailer(fmtContext) writes through fmtContext and its pb; on a
\* muxer whose header was never written its behaviour is not defined.  An error it
\* returns is logged by LOG_IF_FAILED_AV and the block goes on
EndSessionWriteTrailer(t) ==
    /\ pc[t] = "es_trailer"
    /\ \E ok \in BOOLEAN,
          outcome \in Outcomes(fmtContext = "null" \/ pb = "null",
                               pb = "closed" \/ ~HeaderWritten) :
          /\ crashed' = (outcome = "crash")
          /\ IF outcome = "crash"
             THEN UNCHANGED allButCrashed
             ELSE /\ TeardownStep("av_write_trailer", ok)
                  /\ log' = IF ok THEN Append(log, Event("trailer", -1, NoFrame)) ELSE log
                  /\ Goto(t, "es_close")
                  /\ UNCHANGED <<ret, calls, mx, flagVars, videoVars, audioVars, fmtVars,
                                 loc, notified, teardownBy, finishOrder, formatSteps,
                                 encoded, rescale>>

\* line 269: avio_close(fmtContext->pb) reads fmtContext; it accepts NULL and frees an
\* open handle also when it reports an error
EndSessionCloseOutput(t) ==
    /\ pc[t] = "es_close"
    /\ \E ok \in BOOLEAN, outcome \in Outcomes(fmtContext = "null", pb = "closed") :
          /\ crashed' = (outcome = "crash")
          /\ IF outcome = "crash"
             THEN UNCHANGED allButCrashed
             ELSE /\ TeardownStep("avio_close", ok)
                  /\ pb' = IF pb = "open" THEN "closed" ELSE pb
                  /\ Goto(t, "es_vclose")
                  /\ UNCHANGED <<ret, calls, mx, flagVars, videoVars, audioVars, oformat,
                                 fmtContext, videoStream, audioStream, loc, notified, log,
                                 teardownBy, finishOrder, formatSteps, encoded, rescale>>

\* line 270: avcodec_close(videoCodecContext) accepts NULL and always returns 0
EndSessionCloseVideoCodec(t) ==
    /\ pc[t] = "es_vclose"
    /\ \E ok \in {TRUE}, outcome \in Outcomes(FALSE, videoCodecContext.state = "freed") :
          /\ crashed' = (outcome = "crash")
          /\ IF outcome = "crash"
             THEN UNCHANGED allButCrashed
             ELSE /\ TeardownStep("avcodec_close video", ok)
                  /\ videoCodecContext' = [videoCodecContext EXCEPT !.state =
                         IF Invalid(videoCodecContext) THEN @ ELSE "closed"]
                  /\ Goto(t, "es_aclose")
                  /\ UNCHANGED <<ret, calls, mx, flagVars, inputPixelFormat,
                                 outputPixelFormat, width, height, videoCodec, videoFrame,
                                 audioVars, fmtVars, loc, notified, log, teardownBy,
                                 finishOrder, formatSteps, encoded, rescale>>

\* line 271: avcodec_close(audioCodecContext)
EndSessionCloseAudioCodec(t) ==
    /\ pc[t] = "es_aclose"
    /\ \E ok \in {TRUE}, outcome \in Outcomes(FALSE, audioCodecContext.state = "freed") :
          /\ crashed' = (outcome = "crash")
          /\ IF outcome = "crash"
             THEN UNCHANGED allButCrashed
             ELSE /\ TeardownStep("avcodec_close audio", ok)
                  /\ audioCodecContext' = [audioCodecContext EXCEPT !.state =
                         IF Invalid(audioCodecContext) THEN @ ELSE "closed"]
                  /\ Goto(t, "es_free")
                  /\ UNCHANGED <<ret, calls, mx, flagVars, videoVars, audioCodec,
                                 audioFrame, audioBlockAlign, fmtVars, loc, notified, log,
                                 teardownBy, finishOrder, formatSteps, encoded, rescale>>

\* lines 272-277 and the caller's return: av_free both codec contexts (NULL is
\* accepted, the pointers are left dangling), set isSessionFinished, release mxFinish
EndSessionFree(t) ==
    /\ pc[t] = "es_free"
    /\ \E outcome \in Outcomes(FALSE, videoCodecContext.state = "freed"
                                      \/ audioCodecContext.state = "freed") :
          /\ crashed' = (outcome = "crash")
          /\ IF outcome = "crash"
             THEN UNCHANGED allButCrashed
             ELSE /\ teardownSteps' = teardownSteps \o
                         <<[step |-> "av_free video", ok |-> TRUE],
                           [step |-> "av_free audio", ok |-> TRUE]>>
                  /\ videoCodecContext' = [videoCodecContext EXCEPT !.state =
                         IF @ = "null" THEN @ ELSE "freed"]
                  /\ audioCodecContext' = [audioCodecContext EXCEPT !.state =
                         IF @ = "null" THEN @ ELSE "freed"]
                  /\ isSessionFinished' = TRUE
                  /\ Unlock(t, "mxFinish")
                  /\ Return(t, "S_OK")
                  /\ UNCHANGED <<calls, isVideoContextCreated, isAudioContextCreated,
                                 isFormatContextCreated, isCapturing, isVideoFinished,
                                 isAudioFinished, inputPixelFormat, outputPixelFormat,
                                 width, height, videoCodec, videoFrame, audioCodec,
                                 audioFrame, audioBlockAlign, fmtVars, loc, notified, log,
                                 teardownBy, finishOrder, formatSteps, encoded, rescale>>

\* ------------------------------------------------------------ specification
NoRescale == [stage |-> "off", t |-> 0, fps |-> <<1, 1>>, pts |-> 0, back |-> 0]

\* the session as the constructor leaves it (lines 10-12), with the calls w each
\* caller thread will make
InitSession(w) ==
    /\ pc = [t \in Threads |-> "idle"]
    /\ ret = [t \in Threads |-> <<>>]
    /\ calls = [t \in Threads |-> 0]
    /\ workload = w
    /\ mx = [m \in Mutexes |-> NoThread]
    /\ crashed = FALSE
    /\ isVideoContextCreated = FALSE
    /\ isAudioContextCreated = FALSE
    /\ isFormatContextCreated = FALSE
    /\ isCapturing = FALSE
    /\ isVideoFinished = FALSE
    /\ isAudioFinished = FALSE
    /\ isSessionFinished = FALSE
    /\ inputPixelFormat = "NONE"
    /\ outputPixelFormat = "NONE"
    /\ width = 0
    /\ height = 0
    /\ videoCodec = "null"
    /\ videoCodecContext = NullVideoCodecContext
    /\ videoFrame = NullVideoFrame
    /\ audioCodec = "null"
    /\ audioCodecContext = NullAudioCodecContext
    /\ audioFrame = NullAudioFrame
    /\ audioBlockAlign = 0
    /\ oformat = "null"
    /\ fmtContext = "null"
    /\ videoStream = NullStream
    /\ audioStream = NullStream
    /\ pb = "null"
    /\ loc = [t \in Threads |-> NoLocals]
    /\ notified = {}
    /\ log = <<>>
    /\ teardownBy = <<>>
    /\ teardownSteps = <<>>
    /\ finishOrder = <<>>
    /\ formatSteps = <<>>
    /\ encoded = {}

\* the calls each thread makes: create calls per stream context, createFormatContext
\* calls, frames per video writer (two threads), frames of the audio writer, finish
\* calls per stream
Workload(create, format, video1, video2, audio, finish) ==
    [t \in Threads |->
        IF t \in VideoSetupThreads \cup AudioSetupThreads THEN create
        ELSE IF t \in FormatSetupThreads THEN format
        ELSE IF t = "wv1" THEN video1
        ELSE IF t = "wv2" THEN video2
        ELSE IF t \in AudioWriters THEN audio
        ELSE finish]

SetupStep(t) ==
    \/ CreateVideoEnter(t)
    \/ CreateVideoFindEncoder(t)
    \/ CreateVideoAllocContext(t)
    \/ CreateVideoAllocFrame(t)
    \/ CreateAudioEnter(t)
    \/ CreateAudioAllocContext(t)
    \/ CreateAudioAllocFrame(t)
    \/ CreateFormatEnter(t)
    \/ CreateFormatCheckVideo(t)
    \/ CreateFormatWakeVideo(t)
    \/ CreateFormatLockAudio(t)
    \/ CreateFormatCheckAudio(t)
    \/ CreateFormatWakeAudio(t)
    \/ CreateFormatGuessFormat(t)
    \/ CreateFormatAllocOutput(t)
    \/ CreateFormatNewVideoStream(t)
    \/ CreateFormatNewAudioStream(t)
    \/ CreateFormatOpenVideoCodec(t)
    \/ CreateFormatOpenAudioCodec(t)
    \/ CreateFormatOpenFile(t)
    \/ CreateFormatWriteHeader(t)
    \/ CreateFormatReady(t)

WriteStep(t) ==
    \/ WriteVideoEnter(t)
    \/ WriteVideoCheckReady(t)
    \/ WriteVideoWake(t)
    \/ WriteVideoCheckSize(t)
    \/ WriteVideoFillFrame(t)
    \/ WriteVideoEncode(t)
    \/ WriteVideoLockWrite(t)
    \/ WriteVideoWritePacket(t)
    \/ WriteAudioEnter(t)
    \/ WriteAudioCheckReady(t)
    \/ WriteAudioWake(t)
    \/ WriteAudioFillFrame(t)
    \/ WriteAudioEncode(t)
    \/ WriteAudioLockWrite(t)
    \/ WriteAudioWritePacket(t)

FinishStep(t) ==
    \/ FinishVideo(t)
    \/ FinishAudio(t)
    \/ EndSessionWriteTrailer(t)
    \/ EndSessionCloseOutput(t)
    \/ EndSessionCloseVideoCodec(t)
    \/ EndSessionCloseAudioCodec(t)
    \/ EndSessionFree(t)

\* no thread is inside a call and none has a call left to make
Quiescent == \A t \in Threads : pc[t] = "idle" /\ calls[t] = workload[t]

\* every frame submission has returned
AllSubmitted ==
    \A t \in VideoWriters \cup AudioWriters : pc[t] = "idle" /\ calls[t] = workload[t]

\* the three setup calls alone, the stream contexts created repeatedly
InitSetup == InitSession(Workload(MaxCreateCalls, 1, 0, 0, 0, 0)) /\ rescale = NoRescale
NextSetup ==
    /\ ~crashed
    /\ UNCHANGED workload
    /\ \E t \in Threads : SetupStep(t)
SpecSetup == InitSetup /\ [][NextSetup]_vars

\* setup and three producer threads, two of them submitting video
InitStream == InitSession(Workload(1, 1, MaxFrames, 1, 1, 0)) /\ rescale = NoRescale
NextStream ==
    /\ ~crashed
    /\ UNCHANGED workload
    /\ \E t \in Threads : SetupStep(t) \/ WriteStep(t)
SpecStream == InitStream /\ [][NextStream]_vars

\* setup and the finish calls, repeated
InitFinish == InitSession(Workload(1, 1, 0, 0, 0, MaxFinishCalls)) /\ rescale = NoRescale
NextFinish ==
    /\ ~crashed
    /\ UNCHANGED workload
    /\ \E t \in Threads : SetupStep(t) \/ FinishStep(t)
SpecFinish == InitFinish /\ [][NextFinish]_vars

\* one recording: setup, one producer per stream, and each finish called once after
\* the submissions have returned
InitLifecycle == InitSession(Workload(1, 1, MaxFrames, 0, MaxFrames, 1)) /\ rescale = NoRescale
NextLifecycle ==
    /\ ~crashed
    /\ UNCHANGED workload
    /\ \E t \in Threads :
          \/ SetupStep(t)
          \/ WriteStep(t)
          \/ AllSubmitted /\ FinishStep(t)
SpecLifecycle == InitLifecycle /\ [][NextLifecycle]_vars

\* ------------------------------------------------------ timestamp rescaling
\* frame rates <<fps_num, fps_den>> and producer timestamps the rescaling is applied to
FrameRates == {<<30000, 1001>>, <<60, 1>>, <<24, 1>>}
TickStep == 4167
MaxTickSteps == 240
Timestamps == {n * TickStep : n \in 0..MaxTickSteps} \cup 0..2

InitRescale ==
    /\ InitSession(Workload(0, 0, 0, 0, 0, 0))
    /\ \E t \in Timestamps, fps \in FrameRates :
          rescale = [stage |-> "input", t |-> t, fps |-> fps, pts |-> 0, back |-> 0]

\* line 185: pts = av_rescale_q(sampleTime, MF_TIME_BASE, time_base), with the
\* time base fps_den / fps_num that line 41 stores
RescaleToVideo ==
    /\ rescale.stage = "input"
    /\ rescale' = [rescale EXCEPT
                     !.stage = "rescaled",
                     !.pts = av_rescale_q(rescale.t, MF_TIME_BASE,
                                          <<rescale.fps[2], rescale.fps[1]>>)]
    /\ UNCHANGED <<crashed, workload, pc, ret, calls, mx, flagVars, videoVars, audioVars,
                   fmtVars, loc, ghostVars>>

\* the inverse rescale of the round trip: from the video time base back to ticks
RescaleBack ==
    /\ rescale.stage = "rescaled"
    /\ rescale' = [rescale EXCEPT
                     !.stage = "done",
                     !.back = av_rescale_q(rescale.pts,
                                           <<rescale.fps[2], rescale.fps[1]>>,
                                           MF_TIME_BASE)]
    /\ UNCHANGED <<crashed, workload, pc, ret, calls, mx, flagVars, videoVars, audioVars,
                   fmtVars, loc, ghostVars>>

NextRescale == RescaleToVideo \/ RescaleBack
SpecRescale == InitRescale /\ [][NextRescale]_vars

\* the video context created repeatedly, before and after the container is ready, with
\* one producer per stream
InitRecreate ==
    /\ InitSession([t \in Threads |-> IF t \in VideoSetupThreads THEN MaxCreateCalls
                                      ELSE Workload(1, 1, 1, 0, 1, 0)[t]])
    /\ rescale = NoRescale
NextRecreate ==
    /\ ~crashed
    /\ UNCHANGED workload
    /\ \E t \in Threads : SetupStep(t) \/ WriteStep(t)
SpecRecreate == InitRecreate /\ [][NextRecreate]_vars

\* setup and one producer per stream, every thread scheduled fairly: a thread that can
\* take a step does not stay without one forever
InitRelease == InitSession(Workload(1, 1, 1, 0, 1, 0)) /\ rescale = NoRescale
ReleaseStep(t) ==
    /\ ~crashed
    /\ UNCHANGED workload
    /\ (SetupStep(t) \/ WriteStep(t))
NextRelease == \E t \in Threads : ReleaseStep(t)
SpecRelease ==
    InitRelease /\ [][NextRelease]_vars /\ \A t \in Threads : WF_vars(ReleaseStep(t))

\* every call from any thread at any time, one producer per stream
Init == InitSession(Workload(1, 1, 1, 0, 1, 1)) /\ rescale = NoRescale
Next ==
    /\ ~crashed
    /\ UNCHANGED workload
    /\ \E t \in Threads : SetupStep(t) \/ WriteStep(t) \/ FinishStep(t)
Spec == Init /\ [][Next]_vars

\* ------------------------------------------------------------------- claims
BothContextsReady == isVideoContextCreated /\ isAudioContextCreated

\* positions of createFormatContext from av_guess_format on
ConfigurationSteps ==
    {"cf_guess", "cf_alloc", "cf_vstream", "cf_astream", "cf_vopen", "cf_aopen",
     "cf_file", "cf_header", "cf_ready"}

\* C1 (rendezvous): whenever createFormatContext is past its two waits, has made any
\* container configuration call (format guess, context allocation, stream
\* registration, codec open, file open, header write) or isFormatContextCreated is
\* set, both isVideoContextCreated and isAudioContextCreated are true.
C1_Rendezvous ==
    /\ isFormatContextCreated => BothContextsReady
    /\ (\E t \in FormatSetupThreads : pc[t] \in ConfigurationSteps) => BothContextsReady
    /\ formatSteps # <<>> => BothContextsReady
    /\ (oformat # "null" \/ fmtContext # "null" \/ videoStream.state # "null"
          \/ audioStream.state # "null" \/ pb # "null" \/ log # <<>>) => BothContextsReady

\* the container became ready after both stream contexts did
C1_Witness ==
    /\ isFormatContextCreated
    /\ ~crashed
    /\ \A t \in FormatSetupThreads : ret[t] = <<"S_OK">>

InPacketWrite == {t \in VideoWriters \cup AudioWriters : pc[t] \in {"wv_write", "wa_write"}}

\* C2 (mutual exclusion): at most one thread at a time is between taking the write
\* lock and the return of av_interleaved_write_frame.
C2_MutualExclusion == Cardinality(InPacketWrite) <= 1

\* one thread is writing a packet while a video and an audio submission wait to write
C2_Witness ==
    /\ InPacketWrite # {}
    /\ \E t \in VideoWriters : pc[t] = "wv_lock"
    /\ \E t \in AudioWriters : pc[t] = "wa_lock"

Finishers == VideoFinishers \cup AudioFinishers
FinishersOf(flag) == IF flag = "video" THEN VideoFinishers ELSE AudioFinishers
Count(ev) == Cardinality({i \in 1..Len(log) : log[i].ev = ev})
Attempts(step) ==
    Cardinality({i \in 1..Len(teardownSteps) : teardownSteps[i].step = step})
Succeeded(step) ==
    \E i \in 1..Len(teardownSteps) : teardownSteps[i].step = step /\ teardownSteps[i].ok

\* C3 (finalize once): while finishVideo and finishAudio have each been called at most
\* once, the teardown block has been entered at most once and at most one trailer
\* written, and only by the call that set the second of the two flags; once both calls
\* have returned it has run exactly once (one trailer write attempted) and
\* isSessionFinished is set.
C3_FinalizeOnce ==
    (\A t \in Finishers : calls[t] <= 1) =>
        /\ Len(teardownBy) <= 1
        /\ Count("trailer") <= 1
        /\ Len(teardownBy) = 1 =>
              /\ Len(finishOrder) = 2
              /\ teardownBy[1] \in FinishersOf(finishOrder[2])
        /\ (\A t \in Finishers : calls[t] = 1 /\ pc[t] = "idle") =>
              /\ Len(teardownBy) = 1
              /\ Attempts("av_write_trailer") = 1
              /\ isSessionFinished

\* finishVideo then finishAudio, each once, on an open container: finishAudio tore down
C3_Witness ==
    /\ ~crashed
    /\ isFormatContextCreated
    /\ \A t \in Finishers : calls[t] = 1 /\ pc[t] = "idle"
    /\ finishOrder = <<"video", "audio">>
    /\ \E t \in AudioFinishers : teardownBy = <<t>>
    /\ pb = "closed"

PastReadyWait ==
    {"wv_size", "wv_fill", "wv_encode", "wv_lock", "wv_write",
     "wa_fill", "wa_encode", "wa_lock", "wa_write"}

\* C4 (no frame before the container is ready): a submission is past its wait loop,
\* has returned, has installed a frame, or has produced or written a packet only in
\* states where isFormatContextCreated is true.
C4_NoFrameBeforeReady ==
    /\ \A t \in VideoWriters \cup AudioWriters :
          (pc[t] \in PastReadyWait \/ ret[t] # <<>>) => isFormatContextCreated
    /\ (encoded # {} \/ Count("packet") > 0 \/ videoFrame.data # NoFrame
          \/ audioFrame.data # NoFrame) => isFormatContextCreated

\* a submission that had to wait for the container has gone on to encode its frame
C4_Witness ==
    /\ isFormatContextCreated
    /\ \E t \in VideoWriters : pc[t] = "wv_encode"
    /\ \E t \in AudioWriters : pc[t] = "wa_encode"

\* C5 (teardown at most once, for any sequence of finish calls): on a container whose
\* header was written before anything else happened to it, the teardown block is
\* entered at most once and at most one trailer is written, however often the finish
\* calls are repeated.
C5_TeardownAtMostOnce ==
    (log # <<>> /\ log[1].ev = "header") =>
        /\ Len(teardownBy) <= 1
        /\ Count("trailer") <= 1


\* the library calls of createFormatContext, in the order of lines 108-142
FormatStepOrder ==
    <<"av_guess_format", "avformat_alloc_output_context2", "avformat_new_stream video",
      "avformat_new_stream audio", "avcodec_open2 video", "avcodec_open2 audio",
      "avio_open", "avformat_write_header">>

FormatStepFailed == formatSteps # <<>> /\ ~formatSteps[Len(formatSteps)].ok

\* C6 (ready only after the header; a failing step aborts): createFormatContext makes
\* its library calls in source order and none after one that failed;
\* isFormatContextCreated, isCapturing and the readiness notification appear only after
\* all eight calls, the header write last, succeeded; after a failed call the function
\* has returned E_FAIL with both flags false and no notification, and it returns
\* E_FAIL only after a failed call.
C6_ReadyOnlyAfterHeader ==
    /\ Len(formatSteps) <= Len(FormatStepOrder)
    /\ \A i \in 1..Len(formatSteps) :
          /\ formatSteps[i].step = FormatStepOrder[i]
          /\ i < Len(formatSteps) => formatSteps[i].ok
    /\ (isFormatContextCreated \/ isCapturing \/ "cvFormatContext" \in notified) =>
          /\ Len(formatSteps) = Len(FormatStepOrder)
          /\ ~FormatStepFailed
          /\ HeaderWritten
    /\ FormatStepFailed =>
          /\ \A t \in FormatSetupThreads : pc[t] = "idle" /\ ret[t] = <<"E_FAIL">>
          /\ ~isFormatContextCreated
          /\ ~isCapturing
          /\ "cvFormatContext" \notin notified
          /\ ~HeaderWritten
    /\ \A t \in FormatSetupThreads :
          /\ ret[t] = <<"E_FAIL">> => FormatStepFailed
          /\ ret[t] = <<"S_OK">> => isFormatContextCreated /\ isCapturing

\* avio_open failed after both codecs were opened: the call returned E_FAIL without
\* writing a header
C6_Witness ==
    /\ Len(formatSteps) = 7
    /\ formatSteps[7] = [step |-> "avio_open", ok |-> FALSE]
    /\ \A t \in FormatSetupThreads : ret[t] = <<"E_FAIL">>
    /\ videoCodecContext.state = "open"
    /\ audioCodecContext.state = "open"
    /\ pb = "null"
    /\ ~isFormatContextCreated

FirstCalls(threads) == \A t \in threads : calls[t] <= 1

\* C7 (a failed lookup or allocation leaves the readiness flag unset): while each
\* stream context has been created at most once, a readiness flag is true only if that
\* stream's encoder lookup, codec-context allocation and frame allocation all
\* succeeded, and a call in which one of them failed has returned E_FAIL.
C7_FailureLeavesFlagUnset ==
    /\ FirstCalls(VideoSetupThreads) =>
          /\ isVideoContextCreated =>
                /\ videoCodec # "null"
                /\ videoCodecContext.state # "null"
                /\ videoFrame.state # "null"
          /\ \A t \in VideoSetupThreads :
                ret[t] = <<"S_OK">> => isVideoContextCreated /\ videoCodec # "null"
    /\ FirstCalls(AudioSetupThreads) =>
          /\ isAudioContextCreated =>
                /\ audioCodec # "null"
                /\ audioCodecContext.state # "null"
                /\ audioFrame.state # "null"
          /\ \A t \in AudioSetupThreads :
                ret[t] = <<"S_OK">> => isAudioContextCreated /\ audioCodec # "null"

\* thread t is at the length check of writeVideoFrame with a length that is not the
\* buffer size of the declared input format and dimensions
WrongLength(t) ==
    /\ pc[t] = "wv_size"
    /\ loc[t].length # av_image_get_buffer_size(inputPixelFormat, width, height)

PacketsOf(frame) == {i \in 1..Len(log) : log[i].ev = "packet" /\ log[i].frame = frame}

\* C8 (size validation): the step a writeVideoFrame call takes at its length check with
\* a wrong length is its return of E_FAIL, and it changes no flag, no video or audio
\* context or frame buffer, no container state, no lock and neither the set of encoded
\* frames nor the written events; a frame whose call returned E_FAIL was never encoded
\* and never written.
C8_SizeValidation ==
    /\ [][\A t \in VideoWriters :
            (WrongLength(t) /\ pc'[t] # pc[t]) =>
                /\ pc'[t] = "idle"
                /\ ret'[t] = Append(ret[t], "E_FAIL")
                /\ UNCHANGED <<flagVars, videoVars, audioVars, fmtVars, mx, log, encoded,
                               crashed>>]_vars
    /\ [](\A t \in VideoWriters : \A k \in 1..Len(ret[t]) :
            ret[t][k] = "E_FAIL" => <<t, k>> \notin encoded /\ PacketsOf(<<t, k>>) = {})

\* a producer's first frame was rejected for its length and its second, valid one was
\* then encoded and written to the video stream
C8_Witness ==
    \E t \in VideoWriters :
        /\ inputPixelFormat = "ARGB"
        /\ ret[t] = <<"E_FAIL", "S_OK">>
        /\ <<t, 2>> \in encoded
        /\ \E i \in PacketsOf(<<t, 2>>) : log[i].stream_index = 0

StreamIndexOf(frame) == IF frame[1] \in VideoWriters THEN 0 ELSE 1

\* C9 (end-to-end lifecycle): once every call of a recording has returned (setup, the
\* video and audio submissions of one producer each, then finishVideo and finishAudio
\* once each), the container holds exactly one header, first; then exactly one packet
\* for every frame whose encode yielded a packet, tagged stream index 0 for video and 1
\* for audio, each producer's packets in submission order; then, the trailer write
\* having succeeded, exactly one trailer, last (and nothing if it reported an error);
\* and isSessionFinished is true.
C9_Lifecycle ==
    (Quiescent /\ ~crashed) =>
        LET n == Cardinality(encoded)
        IN /\ isSessionFinished
           /\ Len(log) = n + (IF Succeeded("av_write_trailer") THEN 2 ELSE 1)
           /\ log[1].ev = "header"
           /\ Succeeded("av_write_trailer") => log[n + 2].ev = "trailer"
           /\ \A i \in 2..(n + 1) :
                 /\ log[i].ev = "packet"
                 /\ log[i].frame \in encoded
                 /\ log[i].stream_index = StreamIndexOf(log[i].frame)
           /\ \A f \in encoded : Cardinality(PacketsOf(f)) = 1
           /\ \A i, j \in 2..(n + 1) :
                 (i < j /\ log[i].frame[1] = log[j].frame[1]) =>
                     log[i].frame[2] < log[j].frame[2]

\* a recording in which every submitted video and audio frame was valid and yielded a
\* packet has ended
C9_Witness ==
    /\ Quiescent
    /\ ~crashed
    /\ isSessionFinished
    /\ Cardinality({f \in encoded : f[1] \in VideoWriters}) = MaxFrames
    /\ Cardinality({f \in encoded : f[1] \in AudioWriters}) = MaxFrames
    /\ Len(log) = 2 * MaxFrames + 2

\* ticks of MF_TIME_BASE per unit of the video time base fps_den / fps_num, as the
\* reduced fraction <<numerator, denominator>>
TicksPerUnit(fps) ==
    LET g == Gcd(MF_TIME_BASE[2], fps[1])
    IN <<(MF_TIME_BASE[2] \div g) * fps[2], fps[1] \div g>>

\* C10 as stated (round trip within one tick): rescaling a timestamp into the video
\* time base and back yields a value within 1 of the timestamp.
C10_RoundTripWithinOneTick ==
    rescale.stage = "done" => Abs(rescale.back - rescale.t) <= 1

\* C10 as amended (round trip within half a video time-base unit): rescaling a
\* non-negative timestamp t into the video time base and back yields t' with
\* |t' - t| <= (10000000 * fps_den / fps_num) / 2 + 1/2, the forward result being the
\* video-time-base value nearest to t.
C10_RoundTripWithinHalfUnit ==
    rescale.stage = "done" =>
        LET u == TicksPerUnit(rescale.fps)
        IN /\ 2 * u[2] * Abs(rescale.back - rescale.t) <= u[1] + u[2]
           /\ 2 * Abs(rescale.pts * u[1] - rescale.t * u[2]) <= u[1]

\* a timestamp between two frames of 30000/1001 came back changed by more than a tick
C10_Witness ==
    /\ rescale.stage = "done"
    /\ rescale.fps = <<30000, 1001>>
    /\ rescale.pts > 0
    /\ Abs(rescale.back - rescale.t) > 1

\* positions of createVideoContext / createAudioContext after the stored parameters and
\* before the return: the call is looking up, allocating and configuring
VideoCreationSteps == {"cv_find", "cv_alloc", "cv_frame"}
AudioCreationSteps == {"ca_alloc", "ca_frame"}

\* C11 (each stream context created at most once): no call of createVideoContext is
\* storing parameters, allocating or configuring a codec context or frame while
\* isVideoContextCreated is already true, and likewise for createAudioContext and
\* isAudioContextCreated: a context that is ready is not allocated or configured again.
C11_CreatedAtMostOnce ==
    /\ \A t \in VideoSetupThreads :
          pc[t] \in VideoCreationSteps => ~isVideoContextCreated
    /\ \A t \in AudioSetupThreads :
          pc[t] \in AudioCreationSteps => ~isAudioContextCreated

PacketPositions == {i \in 1..Len(log) : log[i].ev = "packet"}

\* C12 (per-stream ordering): with one producer thread per stream submitting
\* synchronously, any two packets of the same stream lie in the container in the order
\* in which their frames were submitted, whatever the other stream's submissions do.
C12_PerStreamOrder ==
    \A i, j \in PacketPositions :
        (i < j /\ log[i].stream_index = log[j].stream_index) =>
            /\ log[i].frame[1] = log[j].frame[1]
            /\ log[i].frame[2] < log[j].frame[2]

\* the producers' packets were written interleaved: video, audio, video, audio
C12_Witness ==
    /\ Len(log) >= 5
    /\ \E t \in VideoWriters, u \in AudioWriters :
          /\ log[2] = Event("packet", 0, <<t, 1>>)
          /\ log[3] = Event("packet", 1, <<u, 1>>)
          /\ log[4] = Event("packet", 0, <<t, 2>>)
          /\ log[5] = Event("packet", 1, <<u, 2>>)

\* C13 (the conversion buffer is freed on every exit path): a writeVideoFrame call that
\* has returned has left no conversion buffer of its own allocated.
C13_BufferFreedOnEveryPath ==
    \A t \in VideoWriters : pc[t] = "idle" => loc[t].pDataTarget # "allocated"

\* the library calls of the teardown block, in the order of lines 268-273
TeardownStepOrder ==
    <<"av_write_trailer", "avio_close", "avcodec_close video", "avcodec_close audio",
      "av_free video", "av_free audio">>

\* calls of TeardownStepOrder a thread at the given position of the block has behind it
StepsBehind(position) ==
    IF position = "es_trailer" THEN 0
    ELSE IF position = "es_close" THEN 1
    ELSE IF position = "es_vclose" THEN 2
    ELSE IF position = "es_aclose" THEN 3
    ELSE 4

TeardownPositions == {"es_trailer", "es_close", "es_vclose", "es_aclose", "es_free"}

\* C14 (teardown is total and best-effort): the teardown block makes its library calls
\* in source order, each one whether or not an earlier one reported an error; a thread
\* inside the block has made exactly the calls before its position; once it has left
\* the block all six calls were made and isSessionFinished is set; every finish call
\* returns S_OK.
C14_TeardownTotal ==
    /\ \A i \in 1..Len(teardownSteps) :
          teardownSteps[i].step =
              TeardownStepOrder[((i - 1) % Len(TeardownStepOrder)) + 1]
    /\ \A t \in Finishers :
          /\ pc[t] \in TeardownPositions =>
                Len(teardownSteps) =
                    Len(TeardownStepOrder) * (Len(teardownBy) - 1) + StepsBehind(pc[t])
          /\ \A k \in 1..Len(ret[t]) : ret[t][k] = "S_OK"
    /\ (\A t \in Finishers : pc[t] \notin TeardownPositions) =>
          /\ Len(teardownSteps) = Len(TeardownStepOrder) * Len(teardownBy)
          /\ teardownBy # <<>> => isSessionFinished

\* the trailer write and the output close both reported an error and the teardown
\* still closed and freed both codec contexts and finished the session
C14_Witness ==
    /\ Len(teardownSteps) = Len(TeardownStepOrder)
    /\ ~teardownSteps[1].ok
    /\ ~teardownSteps[2].ok
    /\ pb = "closed"
    /\ videoCodecContext.state = "freed"
    /\ audioCodecContext.state = "freed"
    /\ isSessionFinished
    /\ \A t \in Finishers : ret[t] = <<"S_OK">>

\* positions of a submission from the invocation of the encoder to the end of the
\* packet write
EncodeToWrite == {"wv_encode", "wv_lock", "wv_write", "wa_encode", "wa_lock", "wa_write"}

\* C15 (the write lock covers encode, tag and write): a submission about to invoke its
\* encoder holds mxWriteFrame, and at most one submission at a time is between the
\* invocation of its encoder and the end of its packet write.
C15_LockCoversEncode ==
    /\ \A t \in VideoWriters \cup AudioWriters :
          pc[t] \in {"wv_encode", "wa_encode"} => mx["mxWriteFrame"] = t
    /\ Cardinality({t \in VideoWriters \cup AudioWriters : pc[t] \in EncodeToWrite}) <= 1

\* positions of the two wait loops of createFormatContext and of the wait loop of a
\* frame submission
StreamWaits == {"cf_checkV", "cf_waitV", "cf_lockA", "cf_checkA", "cf_waitA"}
ContainerWaits == {"wv_check", "wv_wait", "wa_check", "wa_wait"}

\* C16 (blocked callers are eventually released): under fair scheduling a
\* createFormatContext call that is in its wait loops when both stream flags are set
\* eventually leaves them, and a frame submission that is in its wait loop when
\* createFormatContext has returned S_OK eventually leaves it, whether or not it was
\* waiting when notify_all was issued.
C16_WaitersReleased ==
    /\ \A t \in FormatSetupThreads :
          (BothContextsReady /\ pc[t] \in StreamWaits) ~> (pc[t] \notin StreamWaits)
    /\ \A w \in VideoWriters \cup AudioWriters :
          ((\E t \in FormatSetupThreads : ret[t] = <<"S_OK">>) /\ pc[w] \in ContainerWaits)
              ~> (pc[w] \notin ContainerWaits)

\* notify_all on cvFormatContext has been issued and createFormatContext has returned
\* while a video and an audio submission are still inside wait_for
C16_Witness ==
    /\ "cvFormatContext" \in notified
    /\ \E t \in FormatSetupThreads : ret[t] = <<"S_OK">>
    /\ \E w \in VideoWriters : pc[w] = "wv_wait"
    /\ \E w \in AudioWriters : pc[w] = "wa_wait"

\* no call made by these threads has returned S_OK
NoSuccess(threads) == \A t \in threads : \A k \in 1..Len(ret[t]) : ret[t][k] # "S_OK"

\* C17 (no way out of the polling waits): as long as createVideoContext or
\* createAudioContext has not returned S_OK, createFormatContext has not returned and
\* is before or inside its wait loops, isFormatContextCreated is false, and no
\* writeVideoFrame or writeAudioFrame call has returned or left its wait loop.
C17_BlockedWithoutBothContexts ==
    (NoSuccess(VideoSetupThreads) \/ NoSuccess(AudioSetupThreads)) =>
        /\ \A t \in FormatSetupThreads :
              ret[t] = <<>> /\ pc[t] \in {"idle"} \cup StreamWaits
        /\ ~isFormatContextCreated
        /\ \A w \in VideoWriters \cup AudioWriters :
              ret[w] = <<>> /\ pc[w] \in {"idle"} \cup ContainerWaits

\* createVideoContext has failed and is not called again: createFormatContext and a
\* submission of each stream sit in their wait_for
C17_Witness ==
    /\ \A t \in VideoSetupThreads : ret[t] = <<"E_FAIL">> /\ calls[t] = workload[t]
    /\ isAudioContextCreated
    /\ \A t \in FormatSetupThreads : pc[t] = "cf_waitV"
    /\ \E w \in VideoWriters : pc[w] = "wv_wait"
    /\ \E w \in AudioWriters : pc[w] = "wa_wait"

\* the per-sample-block byte size writeAudioFrame divides by (line 218)
BlockSize ==
    av_samples_get_buffer_size(audioCodecContext.channels, audioCodecContext.sample_fmt,
                               audioBlockAlign)

\* C18 (the sample-count division is guarded): a writeAudioFrame call is past the
\* division, at its encoder or at the packet write, only with a positive block size,
\* and with a zero or negative one every call that has returned has returned E_FAIL.
C18_DivisionGuarded ==
    \A t \in AudioWriters :
        /\ pc[t] \in {"wa_encode", "wa_lock", "wa_write"} => BlockSize > 0
        /\ BlockSize <= 0 => \A k \in 1..Len(ret[t]) : ret[t][k] = "E_FAIL"

\* positions at which a submission is about to run its encoder or its packet write
EncodeOrWrite == {"wv_encode", "wv_write", "wa_encode", "wa_write"}

\* C19 (the container is not used by a submission once teardown has begun): while a
\* finish call is inside the teardown block no submission is at its encoder or at its
\* packet write, and none is there once isSessionFinished is set.
C19_NoSubmissionDuringTeardown ==
    ((\E f \in Finishers : pc[f] \in TeardownPositions) \/ isSessionFinished)
        => \A t \in VideoWriters \cup AudioWriters : pc[t] \notin EncodeOrWrite

\* C20 (teardown never runs on a container that was not opened): a finish call is
\* inside the teardown block only while isFormatContextCreated is set, every teardown
\* call was made on a container whose header was written, and isSessionFinished implies
\* isFormatContextCreated.
C20_TeardownOnlyWhenReady ==
    /\ (\E f \in Finishers : pc[f] \in TeardownPositions) => isFormatContextCreated
    /\ teardownSteps # <<>> => HeaderWritten
    /\ isSessionFinished => isFormatContextCreated
====
